---- MODULE Spec2Model ----
(***************************************************************************)
(* State-machine model of the WebSocket session/correlation router         *)
(* (src/handler/http/request/websocket/ws.rs) and of the WebSocket tunnel  *)
(* actor (src/router/http/ws_proxy.rs).                                    *)
(*                                                                         *)
(* Every `.await` of the dispatch loop that reads or writes one of the     *)
(* process-wide maps is a suspension point, so the handling of one bus     *)
(* event is a chain of actions (RecvResolve, Lookup, Build, Send, Retire,  *)
(* ExitClose) that interleaves with the other sessions' loops.             *)
(***************************************************************************)
EXTENDS Integers, Sequences, FiniteSets, TLC

\* ---------------------------------------------------------------- bounds
\* Number of events the bus publishes in one run.
MaxPublished == 2
\* Number of 10-second steps the wall clock takes in one run.
MaxTicks == 4
\* Number of frames a tunnel receives in one run, both directions together.
MaxTunnelFrames == 3

\* Number of dashboards create_dashboard is asked to create in one run.
MaxCreates == 2

\* ------------------------------------------------------ program constants
\* Duration::from_secs(30) of client_timedout.
TimeoutSecs == 30
\* Duration::from_secs(10) of the supervisor's interval.
PingIntervalSecs == 10

\* ------------------------------------------------------------ value sets
Conns == {"c1", "c2"}
ReqIds == {"r1", "r2"}
Traces == {"t1"}
Queries == {"q1"}
None == "none"

\* WebSocketMessageType variants carried by a bus event.
EventKinds == {"QueryEnqueued", "Other"}
\* WSClientMessage variants a client text frame can parse to.
DeclClasses == {"Search", "Cancel"}

\* Frame payloads, and the reason a Close frame may carry.
Payloads == {"a", "b"}
CloseReason == "reason"

\* actix_web_actors::ws::Message values a client-facing connection yields.
ActixMsg(k, b) == [lib |-> "actix", kind |-> k, body |-> b]

ActixMessages ==
    {ActixMsg(k, b) : k \in {"Text", "Binary"}, b \in Payloads}
    \cup {ActixMsg(k, "a") : k \in {"Ping", "Pong", "Continuation"}}
    \cup {ActixMsg("Close", None), ActixMsg("Close", CloseReason),
          ActixMsg("Nop", None)}

\* tungstenite::Message values the upstream connection yields.
TungMsg(k, b) == [lib |-> "tungstenite", kind |-> k, body |-> b]

TungsteniteMessages ==
    {TungMsg(k, b) : k \in {"Text", "Binary"}, b \in Payloads}
    \cup {TungMsg(k, "a") : k \in {"Ping", "Pong"}}
    \cup {TungMsg("Close", None), TungMsg("Close", CloseReason)}

\* config::meta::folder::DEFAULT_FOLDER and one other folder id.
DEFAULT_FOLDER == "default"
Folders == {DEFAULT_FOLDER, "f1"}

\* The ids ider::generate hands out, in the order it does, and the bodies
\* of dashboards.
DashIds == 1..MaxCreates
Bodies == {"b1", "b2"}

\* No dashboard request yet.
NoReq == [op |-> None, folder |-> None, to |-> None, id |-> 0,
          body |-> None, res |-> None]

NoEvt == [id |-> 0, trace |-> None, kind |-> None, query |-> None]
\* No Close or Continuation frame handled.
NoClose == [frame |-> ActixMsg("Nop", None), arg |-> None]

NoLoc == [evt |-> NoEvt, req |-> None, sess |-> None, data |-> NoEvt,
          cached |-> None, trace |-> None, query |-> None]

VARIABLES
    now,        \* wall clock, seconds
    registry,   \* request id -> session (connection) or None
    traceMap,   \* trace id -> request id or None
    queryCache, \* trace id -> query payload or None
    reqOf,      \* connection -> request id it connected with
    pc,         \* connection -> position of its dispatch loop
    loc,        \* connection -> locals of its dispatch loop
    inbox,      \* connection -> bus events its receiver has not yet read
    closed,     \* connection -> the Session's shared closed flag
    alive,      \* connection -> liveness clock
    sup,        \* connection -> supervisor task: idle, running, done
    published,  \* number of events published on the bus
    sentLog,    \* messages successfully sent to clients (history)
    parseFailed, \* connections that received an unparsable text frame (history)
    ponged,     \* connections whose pong the loop handled (history)
    sendFailed, \* connections whose loop had a pong or text send fail (history)
    gone,       \* connections whose client end is lost: writes to them fail
    pingFailed, \* connections whose supervisor had a ping fail (history)
    dropped,    \* connections whose loop logged and dropped an event (history)
    closeLog    \* connection -> the Close or Continuation frame its loop
                \* handled and the argument of the close it issued (history)

routerVars == <<now, registry, traceMap, queryCache, reqOf, pc, loc, inbox,
                closed, alive, sup, published, sentLog,
                parseFailed, ponged, sendFailed, gone, pingFailed,
                dropped, closeLog>>

VARIABLES
    upstream,    \* outbound connection: connecting, connected, failed, closed
    txQueue,     \* unbounded channel tx -> rx of client frames to forward
    writer,      \* task draining rx into ws_sink: waiting, running, panicked, ended
    reader,      \* task reading ws_stream: waiting, running, ended
    mailbox,     \* WebSocketMessageWrapper messages do_send put in the actor's mailbox
    actor,       \* the tunnel actor: running, stopped, panicked
    upstreamOut, \* frames written to the upstream sink
    clientOut,   \* frames written to the client connection
    clientIn,    \* frames received from the client (history)
    upstreamIn,  \* frames received from the upstream (history)
    early        \* frames sent into tx before the connection was up (history)

tunnelVars == <<upstream, txQueue, writer, reader, mailbox, actor,
                upstreamOut, clientOut, clientIn, upstreamIn, early>>

VARIABLES
    folderStore, \* db::folders: the folders that exist
    dashStore,   \* db::dashboards: folder -> dashboard id -> body or None
    ownership,   \* the ownership tuples set_ownership has recorded
    generated,   \* number of ids ider::generate has handed out
    dpc,         \* position of the dashboard request being served
    req,         \* the dashboard request being served, or the last one served
    resp         \* the response to the last dashboard request served

dashVars == <<folderStore, dashStore, ownership, generated, dpc, req, resp>>

vars == <<routerVars, tunnelVars, dashVars>>

\* ------------------------------------------------- registry operations
insert_in_ws_session_by_req_id(reg, r, c) == [reg EXCEPT ![r] = c]

get_ws_session_by_req_id(reg, r) == reg[r]

remove_from_ws_session_by_req_id(reg, r) == [reg EXCEPT ![r] = None]

insert_trace_id_to_req_id(tm, t, r) == [tm EXCEPT ![t] = r]

get_req_id_from_trace_id(tm, t) == tm[t]

remove_trace_id_from_cache(tm, t) == [tm EXCEPT ![t] = None]

insert_in_ws_trace_id_query_object(qc, t, q) == [qc EXCEPT ![t] = q]

\* Consuming read: the value found, and the cache without it.
get_ws_trace_id_query_object(qc, t) ==
    [found |-> qc[t], cache |-> [qc EXCEPT ![t] = None]]

\* WsServerEvents::update_payload: the event with the query merged in.
update_payload(evt, q) == [evt EXCEPT !.query = q]

\* ----------------------------------------------------------------- init
RouterInit ==
    /\ now = 0
    /\ registry = [r \in ReqIds |-> None]
    /\ traceMap = [t \in Traces |-> None]
    /\ queryCache = [t \in Traces |-> None]
    /\ reqOf = [c \in Conns |-> None]
    /\ pc = [c \in Conns |-> "idle"]
    /\ loc = [c \in Conns |-> NoLoc]
    /\ inbox = [c \in Conns |-> <<>>]
    /\ closed = [c \in Conns |-> FALSE]
    /\ alive = [c \in Conns |-> 0]
    /\ sup = [c \in Conns |-> "idle"]
    /\ published = 0
    /\ sentLog = {}
    /\ parseFailed = {}
    /\ ponged = {}
    /\ sendFailed = {}
    /\ gone = {}
    /\ pingFailed = {}
    /\ dropped = {}
    /\ closeLog = [c \in Conns |-> NoClose]

TunnelInit ==
    /\ upstream = "connecting"
    /\ txQueue = <<>>
    /\ writer = "waiting"
    /\ reader = "waiting"
    /\ mailbox = <<>>
    /\ actor = "running"
    /\ upstreamOut = <<>>
    /\ clientOut = <<>>
    /\ clientIn = <<>>
    /\ upstreamIn = <<>>
    /\ early = 0

DashInit ==
    /\ folderStore = {}
    /\ dashStore = [f \in Folders |-> [d \in DashIds |-> None]]
    /\ ownership = {}
    /\ generated = 0
    /\ dpc = "idle"
    /\ req = NoReq
    /\ resp = None

Init == RouterInit /\ TunnelInit /\ DashInit

\* A variant of Connect that force-closes the session it supersedes.
Connect_ClosePrior(c, r) ==
    /\ pc[c] = "idle"
    /\ registry' = insert_in_ws_session_by_req_id(registry, r, c)
    /\ closed' = IF registry[r] # None
                 THEN [closed EXCEPT ![registry[r]] = TRUE]
                 ELSE closed
    /\ reqOf' = [reqOf EXCEPT ![c] = r]
    /\ alive' = [alive EXCEPT ![c] = now]
    /\ sup' = [sup EXCEPT ![c] = "running"]
    /\ pc' = [pc EXCEPT ![c] = "select"]
    /\ UNCHANGED <<tunnelVars, dashVars>>
    /\ UNCHANGED <<sendFailed, gone, pingFailed, dropped, closeLog>>
    /\ UNCHANGED <<now, traceMap, queryCache, loc, inbox, published,
                   sentLog, parseFailed, ponged>>

\* ------------------------------------------------------------- websocket
\* GET /ws/{user_id}?request_id=r : register the session, start the
\* liveness clock, spawn the supervisor and the dispatch loop.
Connect(c, r) ==
    /\ pc[c] = "idle"
    /\ registry' = insert_in_ws_session_by_req_id(registry, r, c)
    /\ reqOf' = [reqOf EXCEPT ![c] = r]
    /\ alive' = [alive EXCEPT ![c] = now]
    /\ sup' = [sup EXCEPT ![c] = "running"]
    /\ pc' = [pc EXCEPT ![c] = "select"]
    /\ UNCHANGED <<tunnelVars, dashVars>>
    /\ UNCHANGED <<sendFailed, gone, pingFailed, dropped, closeLog>>
    /\ UNCHANGED <<now, traceMap, queryCache, loc, inbox, closed, published,
                   sentLog, parseFailed, ponged>>

\* ----------------------------------------------------- websocket_handler
\* The loop is at its select! point. The select's else arm needs the
\* client stream exhausted and receiver.recv() failing at once; the sender
\* of WEBSOCKET_MSG_CHAN is a static that is never dropped and a receiver
\* here never lags behind the channel, so that arm is not taken.
AtSelect(c) == pc[c] = "select"

\* Session::pong / Session::text: Err(Closed) once the Session, or a clone
\* of it, was closed, or once the connection that drains it is lost.
SendFails(c) == closed[c] \/ c \in gone

\* The client's end of the connection is lost while its session is served:
\* from then on writes to the session fail. Frames the client sent before
\* may still be read from msg_stream.
ClientGone(c) ==
    /\ pc[c] \notin {"idle", "done"}
    /\ c \notin gone
    /\ gone' = gone \cup {c}
    /\ UNCHANGED <<tunnelVars, dashVars>>
    /\ UNCHANGED <<now, registry, traceMap, queryCache, reqOf, pc, loc, inbox,
                   closed, alive, sup, published, sentLog, parseFailed,
                   ponged, sendFailed, pingFailed, dropped, closeLog>>

\* Message::Ping: reply with a pong; a failed pong returns from the handler
\* (no close is issued on that path), which drops the bus receiver.
ClientPing(c) ==
    /\ AtSelect(c)
    /\ IF SendFails(c)
       THEN /\ pc' = [pc EXCEPT ![c] = "done"]
            /\ inbox' = [inbox EXCEPT ![c] = <<>>]
            /\ sendFailed' = sendFailed \cup {c}
       ELSE UNCHANGED <<pc, inbox, sendFailed>>
    /\ UNCHANGED <<tunnelVars, dashVars>>
    /\ UNCHANGED <<gone, pingFailed, dropped, closeLog>>
    /\ UNCHANGED <<now, registry, traceMap, queryCache, reqOf, loc, closed,
                   alive, sup, published, sentLog, parseFailed, ponged>>

\* Message::Text that parses as a WSClientMessage of class cls for trace t:
\* record trace -> request id; a Search declaration goes on to cache its
\* query (the next await).
ClientText(c, t, cls, q) ==
    /\ AtSelect(c)
    /\ traceMap' = insert_trace_id_to_req_id(traceMap, t, reqOf[c])
    /\ IF cls = "Search"
       THEN /\ pc' = [pc EXCEPT ![c] = "caching"]
            /\ loc' = [loc EXCEPT ![c] = [NoLoc EXCEPT !.trace = t, !.query = q]]
       ELSE UNCHANGED <<pc, loc>>
    /\ UNCHANGED <<tunnelVars, dashVars>>
    /\ UNCHANGED <<sendFailed, gone, pingFailed, dropped, closeLog>>
    /\ UNCHANGED <<now, registry, queryCache, reqOf, inbox, closed, alive,
                   sup, published, sentLog, parseFailed, ponged>>

\* WSClientMessage::Search{trace_id, query}: cache the query for the trace.
CacheQuery(c) ==
    /\ pc[c] = "caching"
    /\ queryCache' = insert_in_ws_trace_id_query_object(
                         queryCache, loc[c].trace, loc[c].query)
    /\ pc' = [pc EXCEPT ![c] = "select"]
    /\ loc' = [loc EXCEPT ![c] = NoLoc]
    /\ UNCHANGED <<tunnelVars, dashVars>>
    /\ UNCHANGED <<sendFailed, gone, pingFailed, dropped, closeLog>>
    /\ UNCHANGED <<now, registry, traceMap, reqOf, inbox, closed, alive, sup,
                   published, sentLog, parseFailed, ponged>>

\* A variant of ClientTextBad that treats the parse error as fatal.
ClientTextBad_Bail(c) ==
    /\ AtSelect(c)
    /\ parseFailed' = parseFailed \cup {c}
    /\ closed' = [closed EXCEPT ![c] = TRUE]
    /\ pc' = [pc EXCEPT ![c] = "done"]
    /\ UNCHANGED <<tunnelVars, dashVars>>
    /\ UNCHANGED <<sendFailed, gone, pingFailed, dropped, closeLog>>
    /\ UNCHANGED <<now, registry, traceMap, queryCache, reqOf, loc,
                   inbox, alive, sup, published, sentLog, ponged>>

\* Message::Text that does not parse: logged, nothing else.
ClientTextBad(c) ==
    /\ AtSelect(c)
    /\ parseFailed' = parseFailed \cup {c}
    /\ UNCHANGED <<tunnelVars, dashVars>>
    /\ UNCHANGED <<sendFailed, gone, pingFailed, dropped, closeLog>>
    /\ UNCHANGED <<now, registry, traceMap, queryCache, reqOf, pc, loc,
                   inbox, closed, alive, sup, published,
                   sentLog, ponged>>

\* The frames that end the handler, and the argument of the close each one
\* is answered with: Close(reason) => session.close(reason),
\* Continuation(_) => session.close(None).
ClosingFrames ==
    {ActixMsg("Close", None), ActixMsg("Close", CloseReason),
     ActixMsg("Continuation", "a")}

CloseArg(f) == IF f.kind = "Close" THEN f.body ELSE None

\* A variant of ClientCloseOrContinuation that answers with the close but
\* goes on looping.
ClientClose_NoReturn(c, f) ==
    /\ AtSelect(c)
    /\ closed' = [closed EXCEPT ![c] = TRUE]
    /\ closeLog' = [closeLog EXCEPT ![c] = [frame |-> f, arg |-> CloseArg(f)]]
    /\ UNCHANGED <<tunnelVars, dashVars>>
    /\ UNCHANGED <<sendFailed, gone, pingFailed, dropped>>
    /\ UNCHANGED <<now, registry, traceMap, queryCache, reqOf, loc, alive, pc,
                   inbox, sup, published, sentLog, parseFailed, ponged>>

\* Message::Close(reason): echo the close and return.
\* Message::Continuation: close(None) and return.
ClientCloseOrContinuation(c, f) ==
    /\ AtSelect(c)
    /\ closed' = [closed EXCEPT ![c] = TRUE]
    /\ closeLog' = [closeLog EXCEPT ![c] = [frame |-> f, arg |-> CloseArg(f)]]
    /\ pc' = [pc EXCEPT ![c] = "done"]
    /\ inbox' = [inbox EXCEPT ![c] = <<>>]
    /\ UNCHANGED <<tunnelVars, dashVars>>
    /\ UNCHANGED <<sendFailed, gone, pingFailed, dropped>>
    /\ UNCHANGED <<now, registry, traceMap, queryCache, reqOf, loc, alive,
                   sup, published, sentLog, parseFailed, ponged>>

\* Message::Pong: the liveness clock is set to Instant::now().
ClientPong(c) ==
    /\ AtSelect(c)
    /\ alive' = [alive EXCEPT ![c] = now]
    /\ ponged' = ponged \cup {c}
    /\ UNCHANGED <<tunnelVars, dashVars>>
    /\ UNCHANGED <<sendFailed, gone, pingFailed, dropped, closeLog>>
    /\ UNCHANGED <<now, registry, traceMap, queryCache, reqOf, pc, loc,
                   inbox, closed, sup, published, sentLog,
                   parseFailed>>

\* WEBSOCKET_MSG_CHAN: an event is broadcast to every subscribed receiver.
Subscribed(c) == pc[c] \notin {"idle", "done"}

Publish(t, k) ==
    /\ published < MaxPublished
    /\ published' = published + 1
    /\ LET e == [id |-> published + 1, trace |-> t, kind |-> k, query |-> None]
       IN inbox' = [c \in Conns |->
                       IF Subscribed(c) THEN Append(inbox[c], e) ELSE inbox[c]]
    /\ UNCHANGED <<tunnelVars, dashVars>>
    /\ UNCHANGED <<sendFailed, gone, pingFailed, dropped, closeLog>>
    /\ UNCHANGED <<now, registry, traceMap, queryCache, reqOf, pc, loc,
                   closed, alive, sup, sentLog, parseFailed, ponged>>

\* receiver.recv() then get_req_id_from_trace_id: an event whose trace
\* resolves to nothing is logged and dropped.
RecvResolve(c) ==
    /\ AtSelect(c)
    /\ inbox[c] # <<>>
    /\ inbox' = [inbox EXCEPT ![c] = Tail(inbox[c])]
    /\ LET e == Head(inbox[c])
           r == get_req_id_from_trace_id(traceMap, e.trace)
       IN IF r # None
          THEN /\ pc' = [pc EXCEPT ![c] = "resolved"]
               /\ loc' = [loc EXCEPT ![c] = [NoLoc EXCEPT !.evt = e, !.req = r]]
               /\ UNCHANGED dropped
          ELSE /\ dropped' = dropped \cup {c}
               /\ UNCHANGED <<pc, loc>>
    /\ UNCHANGED <<tunnelVars, dashVars>>
    /\ UNCHANGED <<sendFailed, gone, pingFailed, closeLog>>
    /\ UNCHANGED <<now, registry, traceMap, queryCache, reqOf, closed, alive,
                   sup, published, sentLog, parseFailed, ponged>>

\* A variant of Lookup in which a missing session ends the loop.
Lookup_MissingFatal(c) ==
    /\ pc[c] = "resolved"
    /\ LET s == get_ws_session_by_req_id(registry, loc[c].req)
       IN IF s # None
          THEN /\ pc' = [pc EXCEPT ![c] = "found"]
               /\ loc' = [loc EXCEPT ![c].sess = s]
               /\ UNCHANGED dropped
          ELSE /\ pc' = [pc EXCEPT ![c] = "exit"]
               /\ loc' = [loc EXCEPT ![c] = NoLoc]
               /\ dropped' = dropped \cup {c}
    /\ UNCHANGED <<tunnelVars, dashVars>>
    /\ UNCHANGED <<sendFailed, gone, pingFailed, closeLog>>
    /\ UNCHANGED <<now, registry, traceMap, queryCache, reqOf, inbox, closed,
                   alive, sup, published, sentLog, parseFailed, ponged>>

\* get_ws_session_by_req_id(&req_id): no session, log and go on looping.
Lookup(c) ==
    /\ pc[c] = "resolved"
    /\ LET s == get_ws_session_by_req_id(registry, loc[c].req)
       IN IF s # None
          THEN /\ pc' = [pc EXCEPT ![c] = "found"]
               /\ loc' = [loc EXCEPT ![c].sess = s]
               /\ UNCHANGED dropped
          ELSE /\ pc' = [pc EXCEPT ![c] = "select"]
               /\ loc' = [loc EXCEPT ![c] = NoLoc]
               /\ dropped' = dropped \cup {c}
    /\ UNCHANGED <<tunnelVars, dashVars>>
    /\ UNCHANGED <<sendFailed, gone, pingFailed, closeLog>>
    /\ UNCHANGED <<now, registry, traceMap, queryCache, reqOf, inbox, closed,
                   alive, sup, published, sentLog, parseFailed, ponged>>

\* A variant of EventData that never merges the cached query.
EventData_NoMerge(e, found) == e

\* let data = match ws_msg.payload { QueryEnqueued => the event with the
\* cached query merged in if there is one, _ => the event as it is }.
EventData(e, found) ==
    IF e.kind = "QueryEnqueued" /\ found # None
    THEN update_payload(e, found)
    ELSE e

\* A variant of Build whose read of the cache leaves the entry in place.
Build_Peek(c) ==
    /\ pc[c] = "found"
    /\ LET e == loc[c].evt
           got == get_ws_trace_id_query_object(queryCache, e.trace)
       IN IF e.kind = "QueryEnqueued"
          THEN loc' = [loc EXCEPT ![c].cached = got.found,
                                  ![c].data = EventData(e, got.found)]
          ELSE loc' = [loc EXCEPT ![c].data = EventData(e, None)]
    /\ pc' = [pc EXCEPT ![c] = "built"]
    /\ UNCHANGED <<tunnelVars, dashVars>>
    /\ UNCHANGED <<sendFailed, gone, pingFailed, dropped, closeLog>>
    /\ UNCHANGED <<now, registry, traceMap, queryCache, reqOf, inbox, closed,
                   alive, sup, published, sentLog, parseFailed, ponged>>

\* The QueryEnqueued arm reads (and takes) the cached query of the trace;
\* the other arm does not touch the cache.
Build(c) ==
    /\ pc[c] = "found"
    /\ LET e == loc[c].evt
           got == get_ws_trace_id_query_object(queryCache, e.trace)
       IN IF e.kind = "QueryEnqueued"
          THEN /\ queryCache' = got.cache
               /\ loc' = [loc EXCEPT ![c].cached = got.found,
                                     ![c].data = EventData(e, got.found)]
          ELSE /\ UNCHANGED queryCache
               /\ loc' = [loc EXCEPT ![c].data = EventData(e, None)]
    /\ pc' = [pc EXCEPT ![c] = "built"]
    /\ UNCHANGED <<tunnelVars, dashVars>>
    /\ UNCHANGED <<sendFailed, gone, pingFailed, dropped, closeLog>>
    /\ UNCHANGED <<now, registry, traceMap, reqOf, inbox, closed,
                   alive, sup, published, sentLog, parseFailed, ponged>>

\* ws_session.text(payload): on Err break, on Ok go on to retire the trace.
Send(c) ==
    /\ pc[c] = "built"
    /\ IF SendFails(loc[c].sess)
       THEN /\ pc' = [pc EXCEPT ![c] = "exit"]
            /\ loc' = [loc EXCEPT ![c] = NoLoc]
            /\ sendFailed' = sendFailed \cup {c}
            /\ UNCHANGED sentLog
       ELSE /\ pc' = [pc EXCEPT ![c] = "sent"]
            /\ sentLog' = sentLog \cup
                   {[to |-> loc[c].sess, by |-> c, req |-> loc[c].req,
                     evt |-> loc[c].evt, cached |-> loc[c].cached,
                     data |-> loc[c].data]}
            /\ UNCHANGED <<loc, sendFailed>>
    /\ UNCHANGED <<tunnelVars, dashVars>>
    /\ UNCHANGED <<gone, pingFailed, dropped, closeLog>>
    /\ UNCHANGED <<now, registry, traceMap, queryCache, reqOf, inbox, closed,
                   alive, sup, published, parseFailed, ponged>>

\* remove_trace_id_from_cache(trace_id); break.
Retire(c) ==
    /\ pc[c] = "sent"
    /\ traceMap' = remove_trace_id_from_cache(traceMap, loc[c].evt.trace)
    /\ pc' = [pc EXCEPT ![c] = "exit"]
    /\ loc' = [loc EXCEPT ![c] = NoLoc]
    /\ UNCHANGED <<tunnelVars, dashVars>>
    /\ UNCHANGED <<sendFailed, gone, pingFailed, dropped, closeLog>>
    /\ UNCHANGED <<now, registry, queryCache, reqOf, inbox, closed, alive,
                   sup, published, sentLog, parseFailed, ponged>>

\* After the loop: let _ = session.close(None).await. The function returns
\* and drops the bus receiver.
ExitClose(c) ==
    /\ pc[c] = "exit"
    /\ closed' = [closed EXCEPT ![c] = TRUE]
    /\ pc' = [pc EXCEPT ![c] = "done"]
    /\ inbox' = [inbox EXCEPT ![c] = <<>>]
    /\ UNCHANGED <<tunnelVars, dashVars>>
    /\ UNCHANGED <<sendFailed, gone, pingFailed, dropped, closeLog>>
    /\ UNCHANGED <<now, registry, traceMap, queryCache, reqOf, loc, alive,
                   sup, published, sentLog, parseFailed, ponged>>

\* ------------------------------------------------------- aliveness_check
\* A variant of client_timedout with the 10 seconds of the doc comment.
client_timedout_10s(c) == now - alive[c] > PingIntervalSecs

client_timedout(c) == now - alive[c] > TimeoutSecs

\* A variant of SupTick in which a failed ping ends the supervisor.
SupTick_PingFatal(c) ==
    /\ sup[c] = "running"
    /\ pingFailed' = IF SendFails(c) THEN pingFailed \cup {c} ELSE pingFailed
    /\ IF client_timedout(c) \/ SendFails(c)
       THEN /\ closed' = [closed EXCEPT ![c] = TRUE]
            /\ registry' = remove_from_ws_session_by_req_id(registry, reqOf[c])
            /\ sup' = [sup EXCEPT ![c] = "done"]
       ELSE UNCHANGED <<closed, registry, sup>>
    /\ UNCHANGED <<tunnelVars, dashVars>>
    /\ UNCHANGED <<sendFailed, gone, dropped, closeLog>>
    /\ UNCHANGED <<now, traceMap, queryCache, reqOf, pc, loc, inbox,
                   alive, published, sentLog, parseFailed, ponged>>

\* A variant of SupTick in which a failed ping skips the rest of the turn.
SupTick_PingSkips(c) ==
    /\ sup[c] = "running"
    /\ pingFailed' = IF SendFails(c) THEN pingFailed \cup {c} ELSE pingFailed
    /\ IF client_timedout(c) /\ ~SendFails(c)
       THEN /\ closed' = [closed EXCEPT ![c] = TRUE]
            /\ registry' = remove_from_ws_session_by_req_id(registry, reqOf[c])
            /\ sup' = [sup EXCEPT ![c] = "done"]
       ELSE UNCHANGED <<closed, registry, sup>>
    /\ UNCHANGED <<tunnelVars, dashVars>>
    /\ UNCHANGED <<sendFailed, gone, dropped, closeLog>>
    /\ UNCHANGED <<now, traceMap, queryCache, reqOf, pc, loc, inbox,
                   alive, published, sentLog, parseFailed, ponged>>

\* One turn of the supervisor's loop: ping (a failure is only logged, and
\* happens when the session was closed or its connection is lost), then
\* on timeout close the session, unregister the request id and stop.
SupTick(c) ==
    /\ sup[c] = "running"
    /\ pingFailed' = IF SendFails(c) THEN pingFailed \cup {c} ELSE pingFailed
    /\ IF client_timedout(c)
       THEN /\ closed' = [closed EXCEPT ![c] = TRUE]
            /\ registry' = remove_from_ws_session_by_req_id(registry, reqOf[c])
            /\ sup' = [sup EXCEPT ![c] = "done"]
       ELSE UNCHANGED <<closed, registry, sup>>
    /\ UNCHANGED <<tunnelVars, dashVars>>
    /\ UNCHANGED <<sendFailed, gone, dropped, closeLog>>
    /\ UNCHANGED <<now, traceMap, queryCache, reqOf, pc, loc, inbox,
                   alive, published, sentLog, parseFailed, ponged>>

\* The wall clock advances by one interval period.
AdvanceClock ==
    /\ now < MaxTicks * PingIntervalSecs
    /\ now' = now + PingIntervalSecs
    /\ UNCHANGED <<tunnelVars, dashVars>>
    /\ UNCHANGED <<sendFailed, gone, pingFailed, dropped, closeLog>>
    /\ UNCHANGED <<registry, traceMap, queryCache, reqOf, pc, loc, inbox,
                   closed, alive, sup, published, sentLog, parseFailed, ponged>>

\* ------------------------------------------------------------ ws_proxy
from_actix_message(msg) ==
    CASE msg.kind = "Text" -> TungMsg("Text", msg.body)
      [] msg.kind = "Binary" -> TungMsg("Binary", msg.body)
      [] msg.kind = "Ping" -> TungMsg("Ping", msg.body)
      [] msg.kind = "Pong" -> TungMsg("Pong", msg.body)
      [] msg.kind = "Close" /\ msg.body = None -> TungMsg("Close", None)
      [] OTHER -> TungMsg("Close", None)

\* A variant of from_tungstenite_msg_to_actix_msg with the Ping and Pong
\* arms exchanged.
from_tungstenite_swapped(msg) ==
    CASE msg.kind = "Text" -> ActixMsg("Text", msg.body)
      [] msg.kind = "Binary" -> ActixMsg("Binary", msg.body)
      [] msg.kind = "Ping" -> ActixMsg("Pong", msg.body)
      [] msg.kind = "Pong" -> ActixMsg("Ping", msg.body)
      [] OTHER -> ActixMsg("Close", None)

from_tungstenite_msg_to_actix_msg(msg) ==
    CASE msg.kind = "Text" -> ActixMsg("Text", msg.body)
      [] msg.kind = "Binary" -> ActixMsg("Binary", msg.body)
      [] msg.kind = "Ping" -> ActixMsg("Ping", msg.body)
      [] msg.kind = "Pong" -> ActixMsg("Pong", msg.body)
      [] msg.kind = "Close" /\ msg.body = None -> ActixMsg("Close", None)
      [] OTHER -> ActixMsg("Close", None)

FramesReceived == Len(clientIn) + Len(upstreamIn)

\* rx is owned by the connecting task and then by the writer task; it is
\* dropped when either of them panics or the writer ends.
RxAlive == upstream # "failed" /\ writer \in {"waiting", "running"}

\* A variant of UpstreamConnected that loses what was queued while the
\* connection was being established.
UpstreamConnected_LosesQueued ==
    /\ upstream = "connecting"
    /\ upstream' = "connected"
    /\ writer' = "running"
    /\ reader' = "running"
    /\ txQueue' = <<>>
    /\ UNCHANGED <<routerVars, dashVars>>
    /\ UNCHANGED early
    /\ UNCHANGED <<mailbox, actor, upstreamOut, clientOut, clientIn,
                   upstreamIn>>

\* connect_async(&url) succeeds: split the stream, spawn the writer, start
\* reading.
UpstreamConnected ==
    /\ upstream = "connecting"
    /\ upstream' = "connected"
    /\ writer' = "running"
    /\ reader' = "running"
    /\ UNCHANGED <<routerVars, dashVars>>
    /\ UNCHANGED early
    /\ UNCHANGED <<txQueue, mailbox, actor, upstreamOut, clientOut, clientIn,
                   upstreamIn>>

\* connect_async(&url) fails: expect("Failed to connect") panics the task,
\* which drops rx and what was queued in it.
UpstreamConnectFails ==
    /\ upstream = "connecting"
    /\ upstream' = "failed"
    /\ txQueue' = <<>>
    /\ UNCHANGED <<routerVars, dashVars>>
    /\ UNCHANGED early
    /\ UNCHANGED <<writer, reader, mailbox, actor, upstreamOut, clientOut,
                   clientIn, upstreamIn>>

\* StreamHandler::handle: Text and Binary are sent into tx, every other
\* frame falls to `_ => ()`. A send into a channel whose rx is dropped
\* panics on expect("Failed to forward message").
StreamHandle(msg) ==
    /\ actor = "running"
    /\ FramesReceived < MaxTunnelFrames
    /\ clientIn' = Append(clientIn, msg)
    /\ IF msg.kind \in {"Text", "Binary"}
       THEN IF RxAlive
            THEN /\ txQueue' = Append(txQueue, msg)
                 /\ early' = IF upstream = "connecting" THEN early + 1
                                                        ELSE early
                 /\ UNCHANGED <<actor, mailbox>>
            ELSE /\ actor' = "panicked"
                 /\ mailbox' = <<>>
                 /\ UNCHANGED <<txQueue, early>>
       ELSE UNCHANGED <<txQueue, actor, mailbox, early>>
    /\ UNCHANGED <<routerVars, dashVars>>
    /\ UNCHANGED <<upstream, writer, reader, upstreamOut, clientOut,
                   upstreamIn>>

\* while let Some(msg) = rx.recv(): ws_sink.send(from_actix_message(msg));
\* a failed send panics the writer on expect("Failed to send message").
WriterForward ==
    /\ writer = "running"
    /\ txQueue # <<>>
    /\ IF upstream = "connected"
       THEN /\ upstreamOut' = Append(upstreamOut, from_actix_message(Head(txQueue)))
            /\ txQueue' = Tail(txQueue)
            /\ UNCHANGED writer
       ELSE /\ writer' = "panicked"
            /\ txQueue' = <<>>
            /\ UNCHANGED upstreamOut
    /\ UNCHANGED <<routerVars, dashVars>>
    /\ UNCHANGED early
    /\ UNCHANGED <<upstream, reader, mailbox, actor, clientOut, clientIn,
                   upstreamIn>>

\* rx.recv() yields None once the actor, and tx with it, is gone and the
\* queue is drained: the writer ends.
WriterEnds ==
    /\ writer = "running"
    /\ txQueue = <<>>
    /\ actor # "running"
    /\ writer' = "ended"
    /\ UNCHANGED <<routerVars, dashVars>>
    /\ UNCHANGED early
    /\ UNCHANGED <<upstream, txQueue, reader, mailbox, actor, upstreamOut,
                   clientOut, clientIn, upstreamIn>>

\* while let Some(Ok(msg)) = ws_stream.next(): translate and do_send to the
\* actor; do_send to an actor that is gone drops the message.
UpstreamFrame(msg) ==
    /\ reader = "running"
    /\ upstream = "connected"
    /\ FramesReceived < MaxTunnelFrames
    /\ upstreamIn' = Append(upstreamIn, msg)
    /\ mailbox' = IF actor = "running"
                  THEN Append(mailbox, from_tungstenite_msg_to_actix_msg(msg))
                  ELSE mailbox
    /\ UNCHANGED <<routerVars, dashVars>>
    /\ UNCHANGED early
    /\ UNCHANGED <<upstream, txQueue, writer, reader, actor, upstreamOut,
                   clientOut, clientIn>>

\* ws_stream.next() yields None or an error: the upstream connection is
\* over and the reading loop ends.
UpstreamEnds ==
    /\ reader = "running"
    /\ upstream = "connected"
    /\ upstream' = "closed"
    /\ reader' = "ended"
    /\ UNCHANGED <<routerVars, dashVars>>
    /\ UNCHANGED early
    /\ UNCHANGED <<txQueue, writer, mailbox, actor, upstreamOut, clientOut,
                   clientIn, upstreamIn>>

\* Handler<WebSocketMessageWrapper>::handle: write the frame to the client
\* with ctx.text / binary / ping / pong / close; other kinds are logged.
WrapperHandle ==
    /\ actor = "running"
    /\ mailbox # <<>>
    /\ LET msg == Head(mailbox)
       IN clientOut' =
              IF msg.kind \in {"Text", "Binary", "Ping", "Pong", "Close"}
              THEN Append(clientOut, msg)
              ELSE clientOut
    /\ mailbox' = Tail(mailbox)
    /\ UNCHANGED <<routerVars, dashVars>>
    /\ UNCHANGED early
    /\ UNCHANGED <<upstream, txQueue, writer, reader, actor, upstreamOut,
                   clientIn, upstreamIn>>

\* The client's stream finishes: StreamHandler::finished stops the actor,
\* which drops its mailbox and tx.
ClientStreamEnds ==
    /\ actor = "running"
    /\ actor' = "stopped"
    /\ mailbox' = <<>>
    /\ UNCHANGED <<routerVars, dashVars>>
    /\ UNCHANGED early
    /\ UNCHANGED <<upstream, txQueue, writer, reader, upstreamOut, clientOut,
                   clientIn, upstreamIn>>

\* ------------------------------------------------------------------ next
\* Connections and request ids are named in the order in which they first
\* appear: the first connection is c1 and comes with r1.
Accepts(c, r) ==
    \/ c = "c1" /\ r = "r1"
    \/ c # "c1" /\ pc["c1"] # "idle"

\* Steps of a client: the frames it sends on its connection.
ClientFrame ==
    \/ \E c \in Conns : ClientPing(c)
    \/ \E c \in Conns, t \in Traces, cls \in DeclClasses, q \in Queries :
           ClientText(c, t, cls, q)
    \/ \E c \in Conns, f \in ClosingFrames : ClientCloseOrContinuation(c, f)

\* Steps of the bus and of the dispatch loops handling its events.
Dispatch ==
    \/ \E t \in Traces, k \in EventKinds : Publish(t, k)
    \/ \E c \in Conns : CacheQuery(c)
    \/ \E c \in Conns : RecvResolve(c)
    \/ \E c \in Conns : Lookup(c)
    \/ \E c \in Conns : Build(c)
    \/ \E c \in Conns : Send(c)
    \/ \E c \in Conns : Retire(c)
    \/ \E c \in Conns : ExitClose(c)

Supervise ==
    \/ \E c \in Conns : SupTick(c)
    \/ AdvanceClock

\* No connection has come with request id r yet.
Unused(r) == \A c \in Conns : reqOf[c] # r

\* The router with clients that connect in the first interval period, each
\* with a request id of its own, and never answer a ping: every session is
\* timed out by its supervisor.
Next ==
    \/ \E c \in Conns, r \in ReqIds :
           now = 0 /\ Accepts(c, r) /\ Unused(r) /\ Connect(c, r)
    \/ ClientFrame
    \/ Dispatch
    \/ Supervise

Spec == Init /\ [][Next]_vars

\* The router within the first interval period (no supervisor has timed
\* out yet), with clients that also send text frames that do not parse.
NextParse ==
    \/ \E c \in Conns, r \in ReqIds : Accepts(c, r) /\ Connect(c, r)
    \/ ClientFrame
    \/ \E c \in Conns : ClientTextBad(c)
    \/ Dispatch

SpecParse == Init /\ [][NextParse]_vars

\* The router within the first interval period, with clients whose
\* connection can be lost at any moment.
NextFail ==
    \/ \E c \in Conns, r \in ReqIds : Accepts(c, r) /\ Connect(c, r)
    \/ ClientFrame
    \/ \E c \in Conns : ClientGone(c)
    \/ Dispatch

SpecFail == Init /\ [][NextFail]_vars

\* Connections, client frames and liveness, with an idle bus: clients
\* connect at any time and answer pings.
NextLive ==
    \/ \E c \in Conns, r \in ReqIds : Accepts(c, r) /\ Connect(c, r)
    \/ ClientFrame
    \/ \E c \in Conns : CacheQuery(c)
    \/ \E c \in Conns : ClientPong(c)
    \/ Supervise

SpecLive == Init /\ [][NextLive]_vars

\* One tunnel: a client connection proxied to one upstream connection.
NextTunnel ==
    \/ UpstreamConnected
    \/ UpstreamConnectFails
    \/ \E msg \in ActixMessages : StreamHandle(msg)
    \/ WriterForward
    \/ WriterEnds
    \/ \E msg \in TungsteniteMessages : UpstreamFrame(msg)
    \/ UpstreamEnds
    \/ WrapperHandle
    \/ ClientStreamEnds

SpecTunnel == Init /\ [][NextTunnel]_vars

\* A specification of SpecLive in which a supervisor whose session has timed
\* out gets to run: its interval timer keeps firing.
SpecLiveFair == SpecLive /\ \A c \in Conns : WF_vars(SupTick(c))

\* SpecLiveFair with time passing: the wall clock keeps advancing up to the
\* horizon of the run.
SpecLiveClock == SpecLiveFair /\ WF_vars(AdvanceClock)

\* ------------------------------------------------------------ dashboards

\* db::folders::exists: whether the folder is in the store.
folders_exists(f) == f \in folderStore

\* folders::save_folder: the folder is in the store afterwards.
save_folder(f) == folderStore \cup {f}

\* db::dashboards::get: the body stored under (folder, id), or None.
dashboards_get(f, d) == IF d \in DashIds THEN dashStore[f][d] ELSE None

\* db::dashboards::put: the body is stored under (folder, id).
dashboards_put(f, d, b) == [dashStore EXCEPT ![f][d] = b]

\* db::dashboards::delete: nothing is stored under (folder, id) any more.
dashboards_delete(f, d) == [dashStore EXCEPT ![f][d] = None]

\* set_ownership: the tuple of the object and its parent folder is recorded.
set_ownership(d, f) == ownership \cup {[obj_id |-> d, parent |-> f]}

\* ider::generate: the next id, never handed out before.
ider_generate == generated + 1

\* The request is answered: the handler returns.
Respond(r) ==
    /\ resp' = r
    /\ dpc' = "idle"

\* Another handler of the service creates a folder.
CreateFolder(f) ==
    /\ dpc = "idle"
    /\ f \notin folderStore
    /\ folderStore' = save_folder(f)
    /\ UNCHANGED <<routerVars, tunnelVars>>
    /\ UNCHANGED <<dashStore, ownership, generated, dpc, req, resp>>

\* create_dashboard is called with a folder and a body.
CreateStart(f, b) ==
    /\ dpc = "idle"
    /\ generated < MaxCreates
    /\ req' = [NoReq EXCEPT !.op = "create", !.folder = f, !.body = b]
    /\ resp' = None
    /\ dpc' = "c_exists"
    /\ UNCHANGED <<routerVars, tunnelVars>>
    /\ UNCHANGED <<folderStore, dashStore, ownership, generated>>

\* create_dashboard, db::folders::exists(...).await?: the error of the
\* storage is returned; an existing folder gets a generated id and goes on
\* to save_dashboard; a missing default folder is created first; any other
\* missing folder is answered with not-found.
CreateExists ==
    /\ dpc = "c_exists"
    /\ \/ /\ Respond("Err")
          /\ UNCHANGED <<req, generated>>
       \/ /\ folders_exists(req.folder)
          /\ req' = [req EXCEPT !.id = ider_generate]
          /\ generated' = ider_generate
          /\ dpc' = "c_put"
          /\ UNCHANGED resp
       \/ /\ ~folders_exists(req.folder)
          /\ req.folder = DEFAULT_FOLDER
          /\ dpc' = "c_save_folder"
          /\ UNCHANGED <<req, generated, resp>>
       \/ /\ ~folders_exists(req.folder)
          /\ req.folder # DEFAULT_FOLDER
          /\ Respond("NotFound folder")
          /\ UNCHANGED <<req, generated>>
    /\ UNCHANGED <<routerVars, tunnelVars>>
    /\ UNCHANGED <<folderStore, dashStore, ownership>>

\* create_dashboard, folders::save_folder(org_id, folder, true).await?: the
\* default folder is created and an id generated, or the error is returned.
CreateSaveFolder ==
    /\ dpc = "c_save_folder"
    /\ \/ /\ Respond("Err")
          /\ UNCHANGED <<folderStore, req, generated>>
       \/ /\ folderStore' = save_folder(req.folder)
          /\ req' = [req EXCEPT !.id = ider_generate]
          /\ generated' = ider_generate
          /\ dpc' = "c_put"
          /\ UNCHANGED resp
    /\ UNCHANGED <<routerVars, tunnelVars>>
    /\ UNCHANGED <<dashStore, ownership>>

\* save_dashboard: db::dashboards::put stores the dashboard and the result
\* is Ok(200 with the dashboard), or the put fails and the result is
\* Ok(Conflict) or Ok(InternalServerError): Ok(..) in every case.
save_dashboard ==
    /\ dpc = "c_put"
    /\ \/ /\ dashStore' = dashboards_put(req.folder, req.id, req.body)
          /\ req' = [req EXCEPT !.res = "Ok"]
       \/ /\ \E e \in {"Conflict", "InternalServerError"} :
                 req' = [req EXCEPT !.res = e]
          /\ UNCHANGED dashStore
    /\ dpc' = "c_saved"
    /\ UNCHANGED <<routerVars, tunnelVars>>
    /\ UNCHANGED <<folderStore, ownership, generated, resp>>

\* create_dashboard, the Ok(res) arm of the match on save_dashboard:
\* set_ownership(org_id, "dashboards", Authz::new(id), folder).await, then
\* the response of save_dashboard is returned.
CreateSaved ==
    /\ dpc = "c_saved"
    /\ ownership' = set_ownership(req.id, req.folder)
    /\ Respond(req.res)
    /\ UNCHANGED <<routerVars, tunnelVars>>
    /\ UNCHANGED <<folderStore, dashStore, generated, req>>

\* move_dashboard is called with a dashboard id and two folders.
MoveStart(d, from, to) ==
    /\ dpc = "idle"
    /\ req' = [NoReq EXCEPT !.op = "move", !.id = d, !.folder = from,
                            !.to = to]
    /\ resp' = None
    /\ dpc' = "m_get"
    /\ UNCHANGED <<routerVars, tunnelVars>>
    /\ UNCHANGED <<folderStore, dashStore, ownership, generated>>

\* move_dashboard, if let Ok(Some(dashboard)) = db::dashboards::get(...):
\* a stored dashboard is read; a missing one, or a failed read, is answered
\* with not-found.
MoveGet ==
    /\ dpc = "m_get"
    /\ \/ /\ dashboards_get(req.folder, req.id) # None
          /\ req' = [req EXCEPT !.body = dashboards_get(req.folder, req.id)]
          /\ dpc' = "m_exists"
          /\ UNCHANGED resp
       \/ /\ Respond("NotFound Dashboard")
          /\ UNCHANGED req
    /\ UNCHANGED <<routerVars, tunnelVars>>
    /\ UNCHANGED <<folderStore, dashStore, ownership, generated>>

\* move_dashboard, if !db::folders::exists(org_id, to_folder).await?: the
\* error is returned, a missing destination is answered with not-found.
MoveExists ==
    /\ dpc = "m_exists"
    /\ \/ Respond("Err")
       \/ /\ ~folders_exists(req.to)
          /\ Respond("NotFound Destination Folder")
       \/ /\ folders_exists(req.to)
          /\ dpc' = "m_put"
          /\ UNCHANGED resp
    /\ UNCHANGED <<routerVars, tunnelVars>>
    /\ UNCHANGED <<folderStore, dashStore, ownership, generated, req>>

\* move_dashboard, db::dashboards::put into the destination folder: a
\* failure is answered with an internal server error.
MovePut ==
    /\ dpc = "m_put"
    /\ \/ /\ dashStore' = dashboards_put(req.to, req.id, req.body)
          /\ dpc' = "m_delete"
          /\ UNCHANGED resp
       \/ /\ Respond("InternalServerError")
          /\ UNCHANGED dashStore
    /\ UNCHANGED <<routerVars, tunnelVars>>
    /\ UNCHANGED <<folderStore, ownership, generated, req>>

\* move_dashboard, let _ = db::dashboards::delete(org_id, dashboard_id,
\* from_folder).await: the result of the delete is dropped and the move is
\* reported as done.
MoveDelete ==
    /\ dpc = "m_delete"
    /\ \/ dashStore' = dashboards_delete(req.folder, req.id)
       \/ UNCHANGED dashStore
    /\ Respond("Dashboard moved successfully")
    /\ UNCHANGED <<routerVars, tunnelVars>>
    /\ UNCHANGED <<folderStore, ownership, generated, req>>

\* The dashboard service: one request is served at a time, each await of
\* the storage a step of its own.
NextDash ==
    \/ \E f \in Folders : CreateFolder(f)
    \/ \E f \in Folders, b \in Bodies : CreateStart(f, b)
    \/ CreateExists
    \/ CreateSaveFolder
    \/ save_dashboard
    \/ CreateSaved
    \/ \E d \in DashIds, from \in Folders, to \in Folders :
           MoveStart(d, from, to)
    \/ MoveGet
    \/ MoveExists
    \/ MovePut
    \/ MoveDelete

SpecDash == Init /\ [][NextDash]_vars

\* ---------------------------------------------------------------- claims
MessagesFor(id) == {m \in sentLog : m.evt.id = id}

MessagesTo(c) == {m \in sentLog : m.to = c}

\* Every connection came with a request id of its own.
DistinctRequestIds ==
    \A c, d \in Conns :
        (c # d /\ reqOf[c] # None /\ reqOf[d] # None) => reqOf[c] # reqOf[d]

\* C1: at-most-once delivery per trace: whatever the number of sessions
\* running their dispatch loops, one bus event for a registered trace
\* causes at most one message to be sent.
C1_AtMostOncePerEvent ==
    DistinctRequestIds =>
        \A id \in 1..published : Cardinality(MessagesFor(id)) <= 1

\* C2: a dispatch loop acts on a bus event (takes the cached query, sends,
\* retires the correlation) only when the event's trace resolves to the
\* request id of the loop's own session; every other loop discards it.
C2_OnlyMatchingLoopActs ==
    /\ \A c \in Conns :
           pc[c] \in {"found", "built", "sent"} => loc[c].req = reqOf[c]
    /\ \A m \in sentLog : m.req = reqOf[m.by]

\* C3: once the dispatch loop of the session registered under request id R
\* has ended, lookup_session(R) no longer returns that session.
C3_EndedLoopUnregistered ==
    \A c \in Conns :
        pc[c] = "done" => get_ws_session_by_req_id(registry, reqOf[c]) # c

\* C4: the supervisor of a session closes it, unregisters its request id
\* and stops exactly when it finds the liveness clock more than 30 seconds
\* old: it stops only then, stopping comes with the close and the removal,
\* a session that is still being served is closed only then, and a
\* supervisor that keeps finding the clock too old does stop.
C4_SupervisorStep(c) ==
    /\ (sup[c] = "running" /\ sup'[c] = "done") =>
           /\ now - alive[c] > TimeoutSecs
           /\ closed'[c]
           /\ get_ws_session_by_req_id(registry', reqOf[c]) = None
    /\ (pc[c] = "select" /\ pc'[c] = "select" /\ ~closed[c] /\ closed'[c]) =>
           /\ now - alive[c] > TimeoutSecs
           /\ sup'[c] = "done"
    /\ (sup[c] = "done") => sup'[c] = "done"

C5_MessageFormed ==
    \A m \in sentLog :
        m.data = IF m.evt.kind = "QueryEnqueued" /\ m.cached # None
                 THEN [m.evt EXCEPT !.query = m.cached]
                 ELSE m.evt

C5_CacheStep ==
    \A t \in Traces :
        queryCache'[t] # queryCache[t] =>
            \/ \E c \in Conns : /\ pc[c] = "caching"
                                /\ loc[c].trace = t
                                /\ queryCache'[t] = loc[c].query
            \/ \E c \in Conns : /\ pc[c] = "found"
                                /\ loc[c].evt.trace = t
                                /\ loc[c].evt.kind = "QueryEnqueued"
                                /\ queryCache'[t] = None
                                /\ loc'[c].cached = queryCache[t]

C5_QueryMerge == []C5_MessageFormed /\ [][C5_CacheStep]_vars

\* A merged QueryEnqueued, an unmerged QueryEnqueued and another event have
\* each been sent.
C5_Witness ==
    /\ \E m \in sentLog :
           m.evt.kind = "QueryEnqueued" /\ m.data.query \in Queries
    /\ \E m \in sentLog :
           m.data.query = None /\ m.evt.kind \in {"QueryEnqueued", "Other"}

\* C6: a text frame that does not parse changes none of the three maps,
\* does not close the connection and leaves the dispatch loop at its
\* select, with its pending bus events.
C6_ParseResilience ==
    [][parseFailed' # parseFailed =>
          /\ UNCHANGED <<registry, traceMap, queryCache, closed, pc, loc,
                         inbox>>
          /\ \A c \in parseFailed' \ parseFailed : pc'[c] = "select"]_vars

\* A loop that received an unparsable frame has since delivered a bus
\* event (frames are read at the select only, so the frame came first).
C6_Witness ==
    \E m \in sentLog : m.by \in parseFailed

\* The frames of the translation table.
SupportedFrame(f) ==
    \/ f.kind \in {"Text", "Binary", "Ping", "Pong"}
    \/ f.kind = "Close" /\ f.body = None

Content(f) == [kind |-> f.kind, body |-> f.body]

ContentOf(seq) == [i \in 1..Len(seq) |-> Content(seq[i])]

\* C7: every supported frame received from the client has been sent to the
\* upstream, same kind and same payload, once the writer has drained the
\* queue.
C7_ClientToUpstream ==
    (upstream = "connected" /\ writer = "running" /\ txQueue = <<>>) =>
        ContentOf(upstreamOut) = ContentOf(SelectSeq(clientIn, SupportedFrame))

\* C8: every frame received from the upstream is handed to the actor and
\* written to the client, in order; a supported frame is written with the
\* same kind and the same payload.
C8_UpstreamToClient ==
    /\ Len(clientOut) <= Len(upstreamIn)
    /\ actor = "running" => Len(clientOut) + Len(mailbox) = Len(upstreamIn)
    /\ \A i \in 1..Len(clientOut) :
           /\ clientOut[i].lib = "actix"
           /\ SupportedFrame(upstreamIn[i]) =>
                  Content(clientOut[i]) = Content(upstreamIn[i])
    /\ \A i \in 1..Len(mailbox) :
           LET j == Len(clientOut) + i
           IN (actor = "running" /\ SupportedFrame(upstreamIn[j])) =>
                  Content(mailbox[i]) = Content(upstreamIn[j])

\* A ping, a bare close and a text frame from the upstream have been
\* written to the client.
C8_Witness ==
    /\ \E i \in 1..Len(clientOut) : clientOut[i].kind = "Ping"
    /\ \E i \in 1..Len(clientOut) : clientOut[i].kind = "Close"
    /\ \E i \in 1..Len(clientOut) : clientOut[i].kind = "Text"

Unsupported(seq) == {i \in 1..Len(seq) : ~SupportedFrame(seq[i])}

\* C9: a frame outside the translation table, from the client or from the
\* upstream, terminates the tunnel, and nothing is forwarded for it.
C9_UnsupportedTerminates ==
    /\ Unsupported(clientIn) # {} =>
           /\ actor # "running"
           /\ Len(upstreamOut) + Len(txQueue)
                  <= Len(clientIn) - Cardinality(Unsupported(clientIn))
    /\ Unsupported(upstreamIn) # {} =>
           /\ reader # "running"
           /\ Len(clientOut) + Len(mailbox)
                  <= Len(upstreamIn) - Cardinality(Unsupported(upstreamIn))

\* C10: no session is sent more than one event message, and a session that
\* was sent one has its dispatch loop past the select.
C10_OneDeliveryPerSession ==
    DistinctRequestIds =>
        \A c \in Conns :
            /\ Cardinality(MessagesTo(c)) <= 1
            /\ MessagesTo(c) # {} => pc[c] \in {"sent", "exit", "done"}

\* The step is the connect of c: websocket() ran for it.
ConnectStep(c) == pc[c] = "idle" /\ pc'[c] = "select"

\* The step is the unregistration issued by the supervisor of c.
UnregisterStep(c) == sup[c] = "running" /\ sup'[c] = "done"

\* C11: a connect under request id R makes lookup_session(R) return the
\* connecting session, closes no session and changes no other entry; an
\* unregistration of R makes lookup_session(R) absent and changes no other
\* entry; no other step changes the registry. Hence lookup_session(R) is
\* the session most recently registered under R, or absent once R was
\* unregistered.
C11_RegistryStep ==
    /\ \A c \in Conns :
           ConnectStep(c) =>
               /\ get_ws_session_by_req_id(registry', reqOf'[c]) = c
               /\ \A r \in ReqIds \ {reqOf'[c]} : registry'[r] = registry[r]
               /\ closed' = closed
    /\ \A c \in Conns :
           UnregisterStep(c) =>
               /\ get_ws_session_by_req_id(registry', reqOf[c]) = None
               /\ \A r \in ReqIds \ {reqOf[c]} : registry'[r] = registry[r]
    /\ (\A c \in Conns : ~ConnectStep(c) /\ ~UnregisterStep(c)) =>
           registry' = registry

C11_RegistryCorrectness == [][C11_RegistryStep]_vars

\* A request id was registered by one connection, overwritten by a second
\* one whose session is open and served, and then unregistered: the lookup
\* is absent, and the other request id was never given an entry.
C11_Witness ==
    \E c, d \in Conns :
        /\ c # d /\ reqOf[c] # None /\ reqOf[c] = reqOf[d]
        /\ sup[c] = "done" /\ sup[d] = "running"
        /\ ~closed[d] /\ pc[d] = "select"
        /\ get_ws_session_by_req_id(registry, reqOf[c]) = None
        /\ \A r \in ReqIds \ {reqOf[c]} : registry[r] = None

\* C12: a loop in which a send to its own client failed (a pong reply, or
\* an event payload for its own session) has, once it is over, issued a
\* close on its connection and deregistered its session.
C12_FailedSendCleansUp ==
    DistinctRequestIds =>
        \A c \in sendFailed :
            (pc[c] = "done" /\ c \in gone) =>
                /\ closed[c]
                /\ get_ws_session_by_req_id(registry, reqOf[c]) # c

\* C13: a supervisor turn whose ping fails, taken while the liveness clock
\* is at most 30 seconds old, leaves the supervisor running, the registry
\* and the closed flags as they were; and a supervisor stops only on a turn
\* that finds the clock more than 30 seconds old.
C13_PingStep(c) ==
    /\ (c \in pingFailed' \ pingFailed /\ ~client_timedout(c)) =>
           /\ sup'[c] = "running"
           /\ registry' = registry
           /\ closed' = closed
    /\ (sup[c] = "running" /\ sup'[c] = "done") => client_timedout(c)

ReceivesUnresolved(c) ==
    /\ pc[c] = "select" /\ pc'[c] # "done"
    /\ inbox[c] # <<>> /\ inbox'[c] = Tail(inbox[c])
    /\ get_req_id_from_trace_id(traceMap, Head(inbox[c]).trace) = None

\* The loop of c looks up the session of the request id it resolved, and
\* there is none.
FindsNoSession(c) ==
    /\ pc[c] = "resolved" /\ pc'[c] # "resolved"
    /\ get_ws_session_by_req_id(registry, loc[c].req) = None

\* C14: a loop that receives an event whose trace resolves to no request
\* id, or to a request id with no registered session, sends nothing, closes
\* nothing, leaves the three maps unchanged and is back at its select; the
\* event is in no inbox again.
C14_DropStep ==
    \A c \in Conns :
        (ReceivesUnresolved(c) \/ FindsNoSession(c)) =>
            /\ pc'[c] = "select"
            /\ UNCHANGED <<registry, traceMap, queryCache, sentLog, closed>>
            /\ \A d \in Conns : Len(inbox'[d]) <= Len(inbox[d])
            /\ c \in dropped'

C14_MissingCorrelationDropped == [][C14_DropStep]_vars

\* A loop dropped an event and went on to deliver a later one, while
\* another loop dropped an event for a trace whose session had been
\* unregistered and is back at its select.
C14_Witness ==
    /\ \E m \in sentLog : m.by \in dropped /\ m.evt.id > 1
    /\ \E c \in dropped :
           /\ pc[c] = "select"
           /\ \E t \in Traces :
                  /\ get_req_id_from_trace_id(traceMap, t) # None
                  /\ get_ws_session_by_req_id(registry, traceMap[t]) = None

\* The messages sent by the loop of c.
MessagesBy(c) == {m \in sentLog : m.by = c}

\* C15: a loop that handled a Close or a Continuation frame has issued a
\* close on its connection, with the client's reason for a Close and with
\* none for a Continuation, and is over; a loop that is over handles no
\* frame and delivers no event: it stays over, its liveness clock is not
\* set again, it receives nothing from the bus and sends nothing.
C15_Closed ==
    \A c \in Conns :
        closeLog[c] # NoClose =>
            /\ closed[c]
            /\ pc[c] = "done"
            /\ closeLog[c].arg = IF closeLog[c].frame.kind = "Close"
                                 THEN closeLog[c].frame.body
                                 ELSE None

C15_OverStep ==
    \A c \in Conns :
        pc[c] = "done" =>
            /\ pc'[c] = "done"
            /\ loc'[c] = loc[c] /\ inbox'[c] = <<>>
            /\ alive'[c] = alive[c]
            /\ MessagesBy(c)' = MessagesBy(c)

C15_CloseEndsLoop == []C15_Closed /\ [][C15_OverStep]_vars

\* One loop ended on a Close frame with a reason and another on a
\* Continuation frame; a trace declared by one of them is still registered
\* and the bus has since published events, none of which was delivered.
C15_Witness ==
    /\ \E c \in Conns :
           closeLog[c] # NoClose /\ closeLog[c].frame.kind = "Continuation"
    /\ \E c \in Conns :
           closeLog[c] # NoClose /\ closeLog[c].arg = CloseReason
    /\ \E t \in Traces : get_req_id_from_trace_id(traceMap, t) # None
    /\ published = MaxPublished
    /\ sentLog = {}

\* The step is a declaration for trace t read by the loop of c: the trace
\* is registered under the request id of c.
Declares(c, t) ==
    /\ pc[c] = "select" /\ pc'[c] \in {"select", "caching"}
    /\ traceMap'[t] = reqOf[c]
    /\ \A u \in Traces \ {t} : traceMap'[u] = traceMap[u]

\* C16: an entry for trace T comes into the cache only as the query of a
\* search declaration for T, one step after the declaration registered
\* T -> request id; a declaration step itself caches nothing, so one that
\* is not of the search class never does; and merging the cached query
\* into a QueryEnqueued event takes the entry out: after the take the cache
\* holds no entry for T until a new search declaration is cached.
C16_CacheStep ==
    /\ \A t \in Traces :
           (queryCache'[t] # queryCache[t] /\ queryCache'[t] # None) =>
               \E c \in Conns :
                   /\ pc[c] = "caching" /\ pc'[c] = "select"
                   /\ loc[c].trace = t /\ queryCache'[t] = loc[c].query
    /\ \A t \in Traces :
           (traceMap'[t] # traceMap[t] /\ traceMap'[t] # None) =>
               /\ \E c \in Conns : Declares(c, t)
               /\ queryCache' = queryCache
    /\ \A c \in Conns :
           (pc[c] = "select" /\ pc'[c] = "caching") =>
               /\ Declares(c, loc'[c].trace)
               /\ loc'[c].query \in Queries
               /\ queryCache' = queryCache
    /\ \A c \in Conns :
           (pc[c] = "found" /\ pc'[c] = "built" /\ loc'[c].cached # None) =>
               /\ loc[c].evt.kind = "QueryEnqueued"
               /\ loc'[c].cached = queryCache[loc[c].evt.trace]
               /\ queryCache'[loc[c].evt.trace] = None

C16_CacheLifecycle == [][C16_CacheStep]_vars

\* A QueryEnqueued event was delivered with the cached query merged in and
\* the cache holds no entry for its trace, while the trace is registered
\* again by a later declaration that cached nothing.
C16_Witness ==
    \E m \in sentLog :
        /\ m.cached \in Queries /\ m.data.query = m.cached
        /\ queryCache[m.evt.trace] = None
        /\ get_req_id_from_trace_id(traceMap, m.evt.trace) # None
        /\ \A c \in Conns : pc[c] \in {"select", "done"}

\* The tunnel has no step of its own left to take: the connection attempt is
\* over, the actor has no wrapper message to handle and the writer has
\* nothing to forward and is not about to end. Only its two peers can act.
TunnelQuiet ==
    /\ upstream # "connecting"
    /\ ~(actor = "running" /\ mailbox # <<>>)
    /\ ~(writer = "running" /\ (txQueue # <<>> \/ actor # "running"))

\* C17: once the tunnel has taken every step it can, an upstream
\* connection that ended has brought the actor, and the client connection
\* with it, to a stop, and a client connection that ended has brought the
\* upstream connection to a close and both forwarding tasks to a stop.
C17_DestroyedWhenEitherSideCloses ==
    TunnelQuiet =>
        /\ upstream = "closed" => actor # "running"
        /\ actor = "stopped" =>
               /\ upstream \in {"closed", "failed"}
               /\ writer # "running"
               /\ reader # "running"

\* The outbound connection could not be established, or a write to the
\* upstream failed.
TunnelFailed == upstream = "failed" \/ writer = "panicked"

\* C18: from a failure of the outbound connection or of a write to the
\* upstream on, nothing more is forwarded upstream, nothing more is written
\* to the client, and a client frame the actor receives ends it.
C18_FailedStep ==
    TunnelFailed =>
        /\ upstreamOut' = upstreamOut
        /\ clientOut' = clientOut
        /\ clientIn' # clientIn => actor' # "running"

C18_FailureTerminatesTunnel == [][C18_FailedStep]_vars

\* C19: the unregistration issued by the supervisor of c on its timeout
\* leaves in place a registry entry that belongs to another session d,
\* which overwrote the entry of c, is open and has not timed out.
C19_TimeoutStep ==
    \A c, d \in Conns :
        (/\ c # d
         /\ UnregisterStep(c)
         /\ sup[d] = "running" /\ ~closed[d] /\ ~client_timedout(d)
         /\ get_ws_session_by_req_id(registry, reqOf[d]) = d) =>
            get_ws_session_by_req_id(registry', reqOf[d]) = d

C19_TimeoutUnregistersOwnSession == [][C19_TimeoutStep]_vars

\* The wall clock of a run stops at the horizon; a timeout is observable
\* for a liveness clock that is more than 30 seconds before it.
Horizon == MaxTicks * PingIntervalSecs

\* C20: once the dispatch loop of a session is over, with time passing and
\* the supervisor's timer firing, the supervisor comes to stop and the
\* request id no longer leads to the session.
C20_NoSupervisorOutlives ==
    \A c \in Conns :
        (pc[c] = "done" /\ sup[c] = "running"
            /\ alive[c] + TimeoutSecs < Horizon)
          ~> (sup[c] = "done"
                /\ get_ws_session_by_req_id(registry, reqOf[c]) # c)

\* A loop ended on a client's Close or Continuation frame; its supervisor
\* then had a ping fail and, later, stopped on the timeout, and the
\* request id is unregistered.
C20_Witness ==
    \E c \in pingFailed :
        /\ closeLog[c] # NoClose
        /\ pc[c] = "done" /\ sup[c] = "done"
        /\ get_ws_session_by_req_id(registry, reqOf[c]) = None

\* The frames the actor sends into tx: StreamHandler::handle forwards Text
\* and Binary.
Forwarded(f) == f.kind \in {"Text", "Binary"}

\* C21: while the outbound connection is being established or is up, the
\* frames written to the upstream followed by the frames waiting in the
\* queue are the frames the actor accepted for forwarding, in the order in
\* which they were received, each once, with their kind and payload; the
\* frames accepted before the connection was up are among them.
C21_FifoLossless ==
    upstream \in {"connecting", "connected"} =>
        /\ ContentOf(upstreamOut) \o ContentOf(txQueue)
               = ContentOf(SelectSeq(clientIn, Forwarded))
        /\ \A i \in 1..Len(upstreamOut) : upstreamOut[i].lib = "tungstenite"
        /\ early <= Len(upstreamOut) + Len(txQueue)

\* Two different frames were accepted before the outbound connection was
\* up; the connection is up and the writer has written them and a later
\* frame to the upstream.
C21_Witness ==
    /\ upstream = "connected"
    /\ early >= 2
    /\ Len(upstreamOut) > early
    /\ txQueue = <<>>
    /\ upstreamOut[1] # upstreamOut[2]

\* C22: create_dashboard records ownership for a dashboard id only when
\* that dashboard was stored: every ownership tuple a step adds names a
\* dashboard that is in the store under that folder, and after a put that
\* failed (conflict or internal error) no tuple is added; when the folder
\* does not exist and is not the default folder, the answer is not-found,
\* nothing is stored and no folder is created.
C22_CreateStep ==
    /\ \A o \in ownership' \ ownership :
           dashStore'[o.parent][o.obj_id] # None
    /\ (dpc = "c_saved" /\ req.res # "Ok") => ownership' = ownership
    /\ (/\ dpc = "c_exists"
        /\ ~folders_exists(req.folder)
        /\ req.folder # DEFAULT_FOLDER
        /\ resp' # "Err")
           => /\ resp' = "NotFound folder"
              /\ dpc' = "idle"
              /\ UNCHANGED <<folderStore, dashStore, ownership>>

C22_OwnershipOnlyWhenStored == [][C22_CreateStep]_vars

\* A move between two folders is being served, or was the last request
\* served.
Moving == req.op = "move" /\ req.folder # req.to

\* The answers of move_dashboard that report a failure.
MoveFailures ==
    {"NotFound Dashboard", "NotFound Destination Folder",
     "InternalServerError", "Err"}

\* C23: move_dashboard never loses the dashboard and moves it only on
\* success: once the dashboard has been read from the source folder it is,
\* in every state of the move and after it, in the source or in the
\* destination folder; it leaves the source folder only in a step before
\* which it is in the destination folder; a move answered with a failure
\* leaves the source folder as it was; and when "Dashboard moved
\* successfully" is reported the dashboard is in the destination folder and
\* no longer in the source folder.
C23_MoveState ==
    /\ (Moving /\ (dpc \in {"m_exists", "m_put", "m_delete"}
                     \/ (dpc = "idle" /\ resp # "NotFound Dashboard")))
           => \/ dashStore[req.folder][req.id] # None
              \/ dashStore[req.to][req.id] # None
    /\ (Moving /\ dpc = "idle" /\ resp = "Dashboard moved successfully")
           => /\ dashStore[req.to][req.id] # None
              /\ dashStore[req.folder][req.id] = None

C23_MoveStep ==
    /\ (/\ Moving
        /\ dpc # "idle"
        /\ dashStore[req.folder][req.id] # None
        /\ dashStore'[req.folder][req.id] = None)
           => dashStore[req.to][req.id] # None
    /\ (Moving /\ dpc # "idle" /\ resp' \in MoveFailures)
           => dashStore'[req.folder] = dashStore[req.folder]

C23_MoveNeverLoses == []C23_MoveState /\ [][C23_MoveStep]_vars

====
